---- MODULE Spec2Model ----
(***************************************************************************)
(* A model of the attribution and visualisation layer of the CNN           *)
(* visualiser: GradCAM, Integrated Gradients, the filter/activation        *)
(* inspector, the feature synthesiser, the prediction helper and the       *)
(* React handlers that drive them.                                         *)
(*                                                                         *)
(* Tensors are modelled by their values (small vectors of numbers) and by  *)
(* their lifetime (a set of labels of the tensors that are live in the     *)
(* engine).  Numbers are IEEE-like: a finite rational, an infinity or NaN. *)
(***************************************************************************)
EXTENDS Integers, Sequences, FiniteSets, TLC

(***************************************************************************)
(* Numbers.  A finite value is a reduced fraction n/d with d > 0; division *)
(* by zero gives an infinity or NaN as the engine's float division does.   *)
(***************************************************************************)
Abs(x) == IF x < 0 THEN -x ELSE x

Sign(x) == IF x < 0 THEN -1 ELSE IF x > 0 THEN 1 ELSE 0

RECURSIVE GCD(_, _)
GCD(a, b) == IF b = 0 THEN a ELSE GCD(b, a % b)

NaN == [t |-> "nan", n |-> 0, d |-> 1]

Inf(s) == [t |-> "inf", n |-> s, d |-> 1]

Fin(n, d) ==
  LET g == GCD(Abs(n), Abs(d))
      s == IF d < 0 THEN -1 ELSE 1
  IN  [t |-> "fin", n |-> (s * n) \div g, d |-> (s * d) \div g]

F(n) == [t |-> "fin", n |-> n, d |-> 1]

IsFinite(a) == a.t = "fin"

IsNaN(a) == a.t = "nan"

FNeg(a) == IF a.t = "nan" THEN NaN ELSE [a EXCEPT !.n = -a.n]

FAdd(a, b) ==
  IF a.t = "nan" \/ b.t = "nan" THEN NaN
  ELSE IF a.t = "inf" /\ b.t = "inf" THEN (IF a.n = b.n THEN a ELSE NaN)
  ELSE IF a.t = "inf" THEN a
  ELSE IF b.t = "inf" THEN b
  ELSE Fin(a.n * b.d + b.n * a.d, a.d * b.d)

FSub(a, b) == FAdd(a, FNeg(b))

FMul(a, b) ==
  IF a.t = "nan" \/ b.t = "nan" THEN NaN
  ELSE IF a.t = "inf" \/ b.t = "inf"
       THEN (IF a.n = 0 \/ b.n = 0 THEN NaN ELSE Inf(Sign(a.n) * Sign(b.n)))
  ELSE Fin(a.n * b.n, a.d * b.d)

FDiv(a, b) ==
  IF a.t = "nan" \/ b.t = "nan" THEN NaN
  ELSE IF a.t = "inf" THEN (IF b.t = "inf" THEN NaN
                            ELSE Inf(a.n * (IF b.n < 0 THEN -1 ELSE 1)))
  ELSE IF b.t = "inf" THEN F(0)
  ELSE IF b.n = 0 THEN (IF a.n = 0 THEN NaN ELSE Inf(Sign(a.n)))
  ELSE Fin(a.n * b.d, a.d * b.n)

\* a <= b as the engine compares floats: false when either side is NaN
FLe(a, b) ==
  IF a.t = "nan" \/ b.t = "nan" THEN FALSE
  ELSE IF a.t = "inf" THEN (a.n < 0 \/ (b.t = "inf" /\ b.n > 0))
  ELSE IF b.t = "inf" THEN b.n > 0
  ELSE a.n * b.d <= b.n * a.d

FLt(a, b) == FLe(a, b) /\ a # b

FAbs(a) == IF a.t = "nan" THEN NaN ELSE [a EXCEPT !.n = Abs(a.n)]

\* the value passed through unrectified
FKeep(a) == a

\* tf.relu: max(0, x); NaN stays NaN
FRelu(a) == IF a.t = "nan" THEN NaN ELSE IF FLt(a, F(0)) THEN F(0) ELSE a

InUnit(a) == IsFinite(a) /\ FLe(F(0), a) /\ FLe(a, F(1))

RECURSIVE FSumSeq(_)
FSumSeq(s) == IF s = <<>> THEN F(0) ELSE FAdd(Head(s), FSumSeq(Tail(s)))

\* the sum f[lo] + ... + f[hi] of exact values, by halves
RECURSIVE FSumRange(_, _, _)
FSumRange(f, lo, hi) ==
  IF lo > hi THEN F(0)
  ELSE IF lo = hi THEN f[lo]
  ELSE LET mid == (lo + hi) \div 2
       IN  FAdd(FSumRange(f, lo, mid), FSumRange(f, mid + 1, hi))

RECURSIVE FMaxSeq(_)
FMaxSeq(s) ==
  IF Len(s) = 1 THEN s[1]
  ELSE LET m == FMaxSeq(Tail(s))
       IN  IF IsNaN(s[1]) \/ IsNaN(m) THEN NaN ELSE IF FLe(m, s[1]) THEN s[1] ELSE m

RECURSIVE FMinSeq(_)
FMinSeq(s) ==
  IF Len(s) = 1 THEN s[1]
  ELSE LET m == FMinSeq(Tail(s))
       IN  IF IsNaN(s[1]) \/ IsNaN(m) THEN NaN ELSE IF FLe(s[1], m) THEN s[1] ELSE m

FMeanSeq(s) == FDiv(FSumSeq(s), F(Len(s)))

Max(a, b) == IF a >= b THEN a ELSE b

Min(a, b) == IF a <= b THEN a ELSE b

(***************************************************************************)
(* State.                                                                  *)
(*   gc*  GradCAM.generateHeatmap                                          *)
(*   ig*  IntegratedGradients.generateAttributions / integratedGradients   *)
(*   fv*  FeatureVisualizer.visualizeFilter                                *)
(*   av*  FilterVisualizer.visualizeActivations                            *)
(*   ui*  ExplainabilityView (React state, engine scope, pending requests) *)
(*   pe*  PredictionExplainer          fe*  FeatureExplorer                *)
(*   nm*  the min-max normalisation of a displayed tensor                  *)
(*   vf*  FilterVisualizer.visualizeFilters                                *)
(*   ow*  the image argument of the five image-taking operations            *)
(*   cm*  CNNModel.loadModel                                                 *)
(*   ph*  PredictionHelper: label loading, predict, getTopKClasses          *)
(*   lf*  FeatureVisualizer.visualizeLayerFilters                           *)
(***************************************************************************)
VARIABLES gcPc, gcIn, gcOut, gcBlend,
          igPc, igIn, igI, igSum, igPoints, igLive, igRes,
          fvPc, fvIn, fvI, fvX, fvBest, fvMeasured, fvLive, fvRes,
          avPc, avIn, avI, avTiles, avLive, avRes,
          uiTab, uiModel, uiLayer, uiImage, uiIsProcessing, uiError, uiHeatmap,
          uiAttr, uiFilterVis, uiActVis, uiScope, uiReqs,
          pePred, peLoading, peError, feGenerating, feGrid, feError,
          nmKind, nmIn, nmOut,
          vfPc, vfIn, vfI, vfTiles, vfFailed, vfRes,
          lfPc, lfIn, lfI, lfCalls, lfVis, lfRes,
          phPc, phLoad, phDict, phIn, phRes,
          cmPc, cmIn, cmModel, cmType, cmTf, cmRes,
          owPc, owIn, owImg, owLive, owDisposed

gcVars == <<gcPc, gcIn, gcOut, gcBlend>>

igVars == <<igPc, igIn, igI, igSum, igPoints, igLive, igRes>>

fvVars == <<fvPc, fvIn, fvI, fvX, fvBest, fvMeasured, fvLive, fvRes>>

avVars == <<avPc, avIn, avI, avTiles, avLive, avRes>>

evVars == <<uiTab, uiModel, uiLayer, uiImage, uiIsProcessing, uiError, uiHeatmap,
            uiAttr, uiFilterVis, uiActVis, uiScope>>

peVars == <<pePred, peLoading, peError>>

feVars == <<feGenerating, feGrid, feError>>

uiVars == <<evVars, uiReqs, peVars, feVars>>

nmVars == <<nmKind, nmIn, nmOut>>

vfVars == <<vfPc, vfIn, vfI, vfTiles, vfFailed, vfRes>>

lfVars == <<lfPc, lfIn, lfI, lfCalls, lfVis, lfRes>>

phVars == <<phPc, phLoad, phDict, phIn, phRes>>

cmVars == <<cmPc, cmIn, cmModel, cmType, cmTf, cmRes>>

owVars == <<owPc, owIn, owImg, owLive, owDisposed>>

(***************************************************************************)
(* GradCAM (gradCAM.js).                                                   *)
(* The image has InChans channels, the target layer in.C channels;         *)
(* both are sampled at the spatial positions Positions.                    *)
(* Whether the values of targetLayer.output can be read at all is left     *)
(* open (in.readable): a read that fails throws inside tf.tidy.            *)
(***************************************************************************)
Positions == 1..2

InChans == 1..2

LayerChanCounts == {1, 2, 3}

GradValues == {-1, 1}

ActValues == {-1, 0, 1}

NoTensors == {}

\* preprocessImage: resize, expandDims, sub, div; none is disposed
PreprocessTensors == {"resized", "expanded", "centered", "preprocessedInput"}

\* tensors of the predicted-class branch (classIndex === null)
ClassTensors(in) == IF in.classGiven THEN {} ELSE {"predictions", "argMax"}

\* tf.browser.fromPixels when the input is not already a tensor
ImgTensors(in) == IF in.imgIsTensor THEN {} ELSE {"img"}

\* weights = tf.mean(grads, [0, 1, 2]): one weight per channel of grads
GradWeights(grads) ==
  [c \in InChans |-> FMeanSeq([p \in Positions |-> F(grads[p][c])])]

\* tf.mul broadcasts two channel axes when they agree or one of them is 1
Broadcastable(a, b) == a = b \/ a = 1 \/ b = 1

\* tf.sum(tf.mul(weights.reshape([1,1,1,-1]), convOutputs), -1)
WeightedSums(weights, acts, C) ==
  LET nW == Cardinality(InChans)
      n  == Max(nW, C)
      W(c) == weights[IF nW = 1 THEN 1 ELSE c]
      A(p, c) == F(acts[p][IF C = 1 THEN 1 ELSE c])
  IN  [p \in Positions |-> FSumSeq([c \in 1..n |-> FMul(W(c), A(p, c))])]

\* tf.relu of the weighted sums
RectifiedMap(weights, acts, C) ==
  LET raw == WeightedSums(weights, acts, C)
  IN  [p \in Positions |-> FRelu(raw[p])]

\* tf.div(heatmap, tf.sub(tf.max(heatmap), tf.min(heatmap)))
NormalizeHeatmap(h) ==
  LET range == FSub(FMaxSeq(h), FMinSeq(h))
  IN  [p \in DOMAIN h |-> FDiv(h[p], range)]

\* what the differentiated function is differentiated with respect to:
\* tf.grad(f) returns df/dx for the argument x of f, here the input image
GradTapeWrt == "inputImage"

\* where the activation values combined with the weights come from:
\* targetLayer.output read outside the function given to tf.grad
ActivationSource == "layerOutputRead"

NullOut(live, threw) ==
  [result |-> "null", heat |-> <<>>, rectified |-> <<>>, gradWrt |-> "none",
   actFrom |-> "none", live |-> live, threw |-> threw]

\* generateHeatmap(inputImage, layerName, classIndex)
GenerateHeatmap(in) ==
  IF ~in.hasModel THEN NullOut(NoTensors, FALSE)
  ELSE
    LET pre == ImgTensors(in) \cup PreprocessTensors \cup ClassTensors(in)
    IN  IF ~in.layerFound THEN NullOut(pre, FALSE)
        \* targetLayer.output.arraySync() throws inside tf.tidy: g is released
        ELSE IF ~in.readable THEN NullOut(pre, TRUE)
        \* tf.mul throws inside tf.tidy: its temporaries are released
        ELSE IF ~Broadcastable(Cardinality(InChans), in.C)
             THEN NullOut(pre \cup {"grads", "weights"}, TRUE)
        ELSE
          LET rect == RectifiedMap(GradWeights(in.grads), in.acts, in.C)
          IN  [result |-> "heatmap", heat |-> NormalizeHeatmap(rect),
               rectified |-> rect, gradWrt |-> GradTapeWrt,
               actFrom |-> ActivationSource,
               live |-> pre \cup {"grads", "weights", "heatmap", "max", "min",
                                  "range", "normalizedHeatmap"},
               threw |-> FALSE]

NoGrads == [p \in Positions |-> [c \in InChans |-> 1]]

NoActs == [p \in Positions |-> [c \in 1..1 |-> 0]]

GcInputs ==
  { [hasModel |-> m, imgIsTensor |-> t, classGiven |-> k, layerFound |-> l,
     readable |-> r, C |-> 1, grads |-> NoGrads, acts |-> NoActs] :
       m \in BOOLEAN, t \in BOOLEAN, k \in BOOLEAN, l \in BOOLEAN, r \in BOOLEAN }

\* the numeric inputs matter only when the call reaches the gradient tape
GcReachesTape(in) == in.hasModel /\ in.layerFound /\ in.readable

GcIdleIn == CHOOSE in \in GcInputs : ~in.hasModel /\ in.imgIsTensor /\ in.classGiven
                                      /\ ~in.layerFound /\ ~in.readable

\* applyHeatmapToImage(originalImage, heatmap, alpha) on an image of the
\* heatmap's size (the bilinear resize then changes nothing) whose pixels all
\* have the value orig in each channel
OrigValues == {0, 255}

Alphas == {F(0), Fin(1, 2), F(1)}

\* coloredHeatmap = tf.stack([r, g, b], -1).mul(255), r = h, g = 0.5 h, b = 0
ColoredHeatmap(h) == <<FMul(h, F(255)), FMul(FMul(h, Fin(1, 2)), F(255)),
                       FMul(F(0), F(255))>>

\* tf.add(tf.mul(scaledOrig, 1 - alpha), tf.mul(coloredHeatmap, alpha))
BlendedImage(orig, heat, alpha) ==
  [p \in DOMAIN heat |->
     [ch \in 1..3 |-> FAdd(FMul(F(orig), FSub(F(1), alpha)),
                           FMul(ColoredHeatmap(heat[p])[ch], alpha))]]

\* what a cast to int32 may make of NaN or an infinity, by backend
NonFiniteCasts == {0, -2147483647 - 1, 2147483647}

\* tf.cast(x, 'int32') of one value: truncation toward zero
CastInt32(a, nonFinite) ==
  IF IsFinite(a) THEN Sign(a.n) * (Abs(a.n) \div a.d) ELSE nonFinite

NoBlend == [applied |-> FALSE, orig |-> 0, alpha |-> F(0), out |-> <<>>]

GcInit ==
  /\ gcPc = "idle" /\ gcIn = GcIdleIn /\ gcOut = NullOut(NoTensors, FALSE)
  /\ gcBlend = NoBlend

GcCall ==
  /\ gcPc = "idle"
  /\ \E base \in GcInputs :
       IF GcReachesTape(base)
       THEN \E C \in LayerChanCounts :
            \E g \in [Positions -> [InChans -> GradValues]] :
            \E a \in [Positions -> [1..C -> ActValues]] :
              LET in == [base EXCEPT !.C = C, !.grads = g, !.acts = a]
              IN  gcIn' = in /\ gcOut' = GenerateHeatmap(in)
       ELSE gcIn' = base /\ gcOut' = GenerateHeatmap(base)
  /\ gcPc' = "done"
  /\ UNCHANGED gcBlend

\* the caller overlays the returned heatmap on the original image
ApplyHeatmapToImage ==
  /\ gcPc = "done" /\ gcOut.result = "heatmap" /\ ~gcBlend.applied
  /\ \E orig \in OrigValues : \E alpha \in Alphas : \E nonFinite \in NonFiniteCasts :
       LET blended == BlendedImage(orig, gcOut.heat, alpha)
       IN  gcBlend' = [applied |-> TRUE, orig |-> orig, alpha |-> alpha,
                       out |-> [p \in DOMAIN blended |->
                                  [ch \in 1..3 |-> CastInt32(blended[p][ch], nonFinite)]]]
  /\ UNCHANGED <<gcPc, gcIn, gcOut>>

\* the caller takes the result; the component is ready for the next call
GcReturn ==
  /\ gcPc = "done"
  /\ gcPc' = "idle"
  /\ gcIn' = GcIdleIn
  /\ gcOut' = NullOut(NoTensors, FALSE)
  /\ gcBlend' = NoBlend


(***************************************************************************)
(* Integrated Gradients (IntegratedGradients.js).                          *)
(* A tensor is a function Positions -> InChans -> number.  The network is  *)
(* a fixed toy model whose class score is the sum of the squares of the    *)
(* input's elements, so its gradient at x is 2 * x.                        *)
(***************************************************************************)
MaxSteps == 3

PixelValues == {0, 1}

T(name, it) == [name |-> name, it |-> it]

ZerosLike(x) == [p \in DOMAIN x |-> [c \in DOMAIN x[p] |-> F(0)]]

TAdd(a, b) == [p \in DOMAIN a |-> [c \in DOMAIN a[p] |-> FAdd(a[p][c], b[p][c])]]

TSub(a, b) == [p \in DOMAIN a |-> [c \in DOMAIN a[p] |-> FSub(a[p][c], b[p][c])]]

TMul(a, b) == [p \in DOMAIN a |-> [c \in DOMAIN a[p] |-> FMul(a[p][c], b[p][c])]]

TScale(a, k) == [p \in DOMAIN a |-> [c \in DOMAIN a[p] |-> FMul(a[p][c], k)]]

TDivBy(a, k) == [p \in DOMAIN a |-> [c \in DOMAIN a[p] |-> FDiv(a[p][c], k)]]

\* tf.sum(tf.abs(t), -1): sum of magnitudes over the channel axis
SumAbsChannels(a) ==
  [p \in DOMAIN a |-> FSumSeq([c \in DOMAIN a[p] |-> FAbs(a[p][c])])]

\* gradient of the toy model's class score at x
ModelGrad(x) == TScale(x, F(2))

\* const delta = tf.sub(input, baseline).div(steps)
IgDelta(input, baseline, steps) == TDivBy(TSub(input, baseline), F(steps))

\* delta.mul(i / steps), then baseline.add(scaledDelta)
InterpolatedInput(input, baseline, steps, i) ==
  TAdd(baseline, TScale(IgDelta(input, baseline, steps), FDiv(F(i), F(steps))))

\* gradientSum.div(steps + 1), (input - baseline) * averaged, sum of |.|
Attributions(input, baseline, gradientSum, steps) ==
  SumAbsChannels(TMul(TSub(input, baseline), TDivBy(gradientSum, F(steps + 1))))

\* the toy model's class score: the sum of the squares of x's elements
ModelScore(x) ==
  FSumSeq([p \in Positions |-> FSumSeq([c \in InChans |-> FMul(x[p][c], x[p][c])])])

\* gradientSum after the iterations 0..i of the loop: element by element the
\* sum of the gradients at the interpolated inputs 0..i
GradientSumTo(input, baseline, steps, i) ==
  [p \in DOMAIN input |-> [c \in DOMAIN input[p] |->
     FSumRange([k \in 0..i |->
                  ModelGrad(InterpolatedInput(input, baseline, steps, k))[p][c]], 0, i)]]

\* integratedGradients(input, baseline, classIndex, steps) as a whole
IntegratedGradientsMap(input, baseline, steps) ==
  Attributions(input, baseline, GradientSumTo(input, baseline, steps, steps), steps)

\* tensors generateAttributions holds when it calls integratedGradients
IgWrapperTensors(in) ==
  (IF in.imgIsTensor THEN {} ELSE {T("img", -1)})
    \cup {T("resized", -1), T("expanded", -1), T("preprocessedInput", -1),
          T("baseline", -1)}
    \cup (IF in.classGiven THEN {} ELSE {T("argMax", -1)})

\* tensors integratedGradients creates before its loop
IgPreLoopTensors == {T("inputMinusBaseline", -1), T("delta", -1), T("gradientSum", -1)}

\* tensors iteration i leaves behind: interpWithGrads and gradients are
\* disposed; scaledDelta, interpolatedInput and the old sum are not
IgIterationLeaves(live, i) ==
  live \cup {T("scaledDelta", i), T("interpolatedInput", i), T("gradientSum", i)}

\* after the loop: gradientSum, averagedGradients and inputDiff are disposed,
\* attributions and tf.abs(attributions) are not; the sum is returned
IgAfterLoop(live, steps) ==
  (live \ {T("gradientSum", steps)})
     \cup {T("attributions", steps), T("abs", steps), T("result", steps)}

IgInputs ==
  { [hasModel |-> m, imgIsTensor |-> t, classGiven |-> k, steps |-> n, x |-> x] :
      m \in BOOLEAN, t \in BOOLEAN, k \in BOOLEAN, n \in 0..MaxSteps,
      x \in [Positions -> [InChans -> {F(v) : v \in PixelValues}]] }

IgNoTensor == [p \in Positions |-> [c \in InChans |-> F(0)]]

IgIdleIn == [hasModel |-> FALSE, imgIsTensor |-> TRUE, classGiven |-> TRUE,
             steps |-> 0, x |-> IgNoTensor]

IgNoResult == [kind |-> "none", map |-> <<>>]

IgInit ==
  /\ igPc = "idle" /\ igIn = IgIdleIn /\ igI = 0 /\ igSum = IgNoTensor
  /\ igPoints = <<>> /\ igLive = {} /\ igRes = IgNoResult

\* generateAttributions up to the first iteration of integratedGradients
IgCall ==
  /\ igPc = "idle"
  /\ \E in \in IgInputs :
       /\ in.hasModel \/ (in.steps = 0 /\ in.x = IgNoTensor)
       /\ igIn' = in
       /\ IF ~in.hasModel
          THEN /\ igPc' = "done" /\ igRes' = [kind |-> "null", map |-> <<>>]
               /\ igLive' = {}
          ELSE /\ igPc' = "loop" /\ igRes' = IgNoResult
               /\ igLive' = IgWrapperTensors(in) \cup IgPreLoopTensors
  /\ igI' = 0 /\ igSum' = IgNoTensor /\ igPoints' = <<>>

\* one iteration of for (let i = 0; i <= steps; i++)
IgStep ==
  /\ igPc = "loop" /\ igI <= igIn.steps
  /\ LET xi == InterpolatedInput(igIn.x, ZerosLike(igIn.x), igIn.steps, igI)
     IN  /\ igPoints' = Append(igPoints, xi)
         /\ igSum' = TAdd(igSum, ModelGrad(xi))
  /\ igLive' = IgIterationLeaves(igLive, igI)
  /\ igI' = igI + 1
  /\ UNCHANGED <<igPc, igIn, igRes>>

\* the model or the engine throws during an iteration: the exception leaves
\* integratedGradients and generateAttributions catches it and returns null
IgThrow ==
  /\ igPc = "loop" /\ igI <= igIn.steps
  /\ igPc' = "done"
  /\ igRes' = [kind |-> "threw", map |-> <<>>]
  /\ igLive' = igLive \cup {T("scaledDelta", igI), T("interpolatedInput", igI),
                            T("interpWithGrads", igI)}
  /\ UNCHANGED <<igIn, igI, igSum, igPoints>>

\* the loop is over: average, multiply, reduce, return to generateAttributions
IgFinish ==
  /\ igPc = "loop" /\ igI > igIn.steps
  /\ igPc' = "done"
  /\ igRes' = [kind |-> "map",
               map |-> Attributions(igIn.x, ZerosLike(igIn.x), igSum, igIn.steps)]
  /\ igLive' = IgAfterLoop(igLive, igIn.steps) \ {T("img", -1)}
  /\ UNCHANGED <<igIn, igI, igSum, igPoints>>

IgReturn ==
  /\ igPc = "done"
  /\ igPc' = "idle" /\ igIn' = IgIdleIn /\ igI' = 0 /\ igSum' = IgNoTensor
  /\ igPoints' = <<>> /\ igLive' = {} /\ igRes' = IgNoResult

(***************************************************************************)
(* Feature synthesis (FeatureVisualizer.visualizeFilter).                  *)
(* The optimised image is one number on a grid of step 0.1 (the engine's   *)
(* rounding is rounding to that grid); the layer is a toy landscape that   *)
(* gives the filter's mean activation at each grid point, 0 outside it.    *)
(***************************************************************************)
MaxIter == 3

LandPoints == (-2)..2

ActLevels == {0, 1, 2}

Landscapes == [LandPoints -> ActLevels]

\* tf.randomUniform([1, ...inputShape], -0.1, 0.1), in grid units
NoiseValues == {-1, 0, 1}

\* learningRate and regularization, in grid units
LearningRates == {1, 2}

Regularizations == {0, 1}

\* the epsilon added to the gradient's RMS: 1e-5
GradEps == Fin(1, 100000)

\* acts.slice(..., filterIndex).mean() at x
Activation(land, x) == IF x \in DOMAIN land THEN land[x] ELSE 0

\* meanActivation - regularization * mean(x^2)
Objective(land, reg, x) == Activation(land, x) - reg * x * x

\* tf.grad of the objective at x (central difference on the grid)
ObjectiveGrad(land, reg, x) ==
  Fin(Objective(land, reg, x + 1) - Objective(land, reg, x - 1), 2)

\* gradients / (sqrt(mean(gradients^2)) + 1e-5); for one element the RMS is |g|
NormalizedGradients(g) == FDiv(g, FAdd(FAbs(g), GradEps))

\* nearest grid point of a finite value (halves away from zero)
RoundToGrid(a) == Sign(a.n) * ((2 * Abs(a.n) + a.d) \div (2 * a.d))

\* the update is lost: the variable keeps its value
InputNotUpdated(land, reg, lr, x) == x

\* inputVar + normalizedGradients * learningRate
UpdatedInput(land, reg, lr, x) ==
  RoundToGrid(FAdd(F(x), FMul(NormalizedGradients(ObjectiveGrad(land, reg, x)), F(lr))))

\* the comparison dropped: every iterate replaces the retained one
IsBetterKeepsLatest(activation, bestActivation) == TRUE

\* if (activation > bestActivation)
IsBetter(activation, bestActivation) == FLt(bestActivation, activation)

\* let bestActivation = -Infinity; let bestImage = null
NoBest == [has |-> FALSE, act |-> Inf(-1), x |-> 0, it |-> -1]

\* the tracking of the best iterate in iteration i, on the measured activation
TrackBest(best, act, x, i) ==
  IF IsBetter(F(act), best.act)
  THEN [has |-> TRUE, act |-> F(act), x |-> x, it |-> i]
  ELSE best

\* live tensors after the tracking and the update of iteration i
FvIterationLeaves(live, best, newBest, i) ==
  ((live \ (IF newBest # best /\ best.has THEN {T("bestImage", best.it)} ELSE {}))
      \cup (IF newBest # best THEN {T("bestImage", i)} ELSE {}))
    \cup {T("updated", i)}

FvInputs ==
  { [hasModel |-> m, layerFound |-> l, iterations |-> n, lr |-> lr, reg |-> r,
     land |-> land, x0 |-> x0] :
      m \in BOOLEAN, l \in BOOLEAN, n \in 0..MaxIter, lr \in LearningRates,
      r \in Regularizations, land \in Landscapes, x0 \in NoiseValues }

FvIdleIn == [hasModel |-> FALSE, layerFound |-> FALSE, iterations |-> 0, lr |-> 1,
             reg |-> 0, land |-> [x \in LandPoints |-> 0], x0 |-> 0]

FvNoResult == [kind |-> "none", x |-> 0, it |-> -1]

FvNullResult == [kind |-> "null", x |-> 0, it |-> -1]

FvInit ==
  /\ fvPc = "idle" /\ fvIn = FvIdleIn /\ fvI = 0 /\ fvX = 0 /\ fvBest = NoBest
  /\ fvMeasured = <<>> /\ fvLive = {} /\ fvRes = FvNoResult

\* an activation model is built although the layer was not looked up
ActivationModelWithoutLayerCheck(in) == in.hasModel

\* createActivationModel(layerName): whether a model is returned (not null)
CreateActivationModel(in) == in.hasModel /\ in.layerFound

\* createActivationModel(layerName), the random input and its variable
FvCall ==
  /\ fvPc = "idle"
  /\ \E in \in FvInputs :
       \* the numeric inputs matter only when an activation model exists
       /\ (in.hasModel /\ in.layerFound)
            \/ (in.iterations = 0 /\ in.lr = 1 /\ in.reg = 0 /\ in.x0 = 0
                /\ in.land = FvIdleIn.land)
       /\ fvIn' = in
       /\ IF CreateActivationModel(in)
          THEN /\ fvPc' = "loop" /\ fvRes' = FvNoResult /\ fvX' = in.x0
               /\ fvLive' = {T("inputImage", -1), T("inputVar", -1)}
          ELSE /\ fvPc' = "done" /\ fvRes' = FvNullResult /\ fvX' = 0
               /\ fvLive' = {}
  /\ fvI' = 0 /\ fvBest' = NoBest /\ fvMeasured' = <<>>

\* one iteration of for (let i = 0; i < iterations; i++)
FvStep ==
  /\ fvPc = "loop" /\ fvI < fvIn.iterations
  /\ LET act  == Activation(fvIn.land, fvX)
         best == TrackBest(fvBest, act, fvX, fvI)
     IN  /\ fvMeasured' = Append(fvMeasured, [x |-> fvX, act |-> act])
         /\ fvBest' = best
         /\ fvLive' = FvIterationLeaves(fvLive, fvBest, best, fvI)
  /\ fvX' = UpdatedInput(fvIn.land, fvIn.reg, fvIn.lr, fvX)
  /\ fvI' = fvI + 1
  /\ UNCHANGED <<fvPc, fvIn, fvRes>>

\* the engine throws inside the iteration's tf.tidy: catch, return null
FvThrow ==
  /\ fvPc = "loop" /\ fvI < fvIn.iterations
  /\ fvPc' = "done"
  /\ fvRes' = [kind |-> "threw", x |-> 0, it |-> -1]
  /\ UNCHANGED <<fvIn, fvI, fvX, fvBest, fvMeasured, fvLive>>

\* after the loop: dispose inputVar and inputImage, normalise bestImage
FvFinish ==
  /\ fvPc = "loop" /\ fvI >= fvIn.iterations
  /\ fvPc' = "done"
  /\ IF fvBest.has
     THEN /\ fvRes' = [kind |-> "image", x |-> fvBest.x, it |-> fvBest.it]
          /\ fvLive' = (fvLive \ {T("inputImage", -1), T("inputVar", -1)})
                          \cup {T("normalizedImage", fvI)}
     ELSE /\ fvRes' = FvNullResult
          /\ fvLive' = fvLive \ {T("inputImage", -1), T("inputVar", -1)}
  /\ UNCHANGED <<fvIn, fvI, fvX, fvBest, fvMeasured>>

FvReturn ==
  /\ fvPc = "done"
  /\ fvPc' = "idle" /\ fvIn' = FvIdleIn /\ fvI' = 0 /\ fvX' = 0 /\ fvBest' = NoBest
  /\ fvMeasured' = <<>> /\ fvLive' = {} /\ fvRes' = FvNoResult

(***************************************************************************)
(* Activation inspector (FilterVisualizer.visualizeActivations).           *)
(***************************************************************************)
MaxChannels == 3

\* options.maxActivations || 16
DefaultMaxActivations == 16

\* 0 stands for an option that is absent (or zero): the default applies
RequestedMax == 0..4

EffectiveMax(requested) == IF requested = 0 THEN DefaultMaxActivations ELSE requested

\* the tensors of channel i that are explicitly disposed at the end of the try
AvDisposedPerChannel(i) ==
  {T("channelActivations", i), T("normalizedActivations", i), T("resized", i),
   T("rgbActivations", i)}

\* the tensors of channel i made outside tf.tidy and never disposed:
\* normalizedActivations.expandDims(2), rgbActivations.mul(255), .cast('int32')
AvUndisposedPerChannel(i) == {T("expandDims", i), T("mul255", i), T("castInt32", i)}

AvInputs ==
  { [hasModel |-> m, imgIsTensor |-> t, layerFound |-> l, C |-> C, requested |-> r] :
      m \in BOOLEAN, t \in BOOLEAN, l \in BOOLEAN, C \in 1..MaxChannels,
      r \in RequestedMax }

AvIdleIn == [hasModel |-> FALSE, imgIsTensor |-> TRUE, layerFound |-> FALSE, C |-> 1,
             requested |-> 0]

AvInit ==
  /\ avPc = "idle" /\ avIn = AvIdleIn /\ avI = 0 /\ avTiles = <<>> /\ avLive = {}
  /\ avRes = "none"

\* getLayerActivations(inputImage, layerName), then the options
AvCall ==
  /\ avPc = "idle"
  /\ \E in \in AvInputs :
       /\ avIn' = in
       /\ IF ~in.hasModel
          THEN avPc' = "done" /\ avRes' = "null" /\ avLive' = {}
          ELSE IF ~in.layerFound
          THEN /\ avPc' = "done" /\ avRes' = "null"
               /\ avLive' = (IF in.imgIsTensor THEN {} ELSE {T("img", -1)})
                               \cup {T("preprocessedInput", -1)}
          ELSE /\ avPc' = "loop" /\ avRes' = "none"
               /\ avLive' = {T("activations", -1)}
  /\ avI' = 0 /\ avTiles' = <<>>

AvNumChannels == Min(avIn.C, EffectiveMax(avIn.requested))

\* one channel of the loop, processed to its ImageData
AvChannel ==
  /\ avPc = "loop" /\ avI < AvNumChannels
  /\ avTiles' = Append(avTiles, avI)
  /\ avLive' = avLive \cup AvUndisposedPerChannel(avI)
  /\ avI' = avI + 1
  /\ UNCHANGED <<avPc, avIn, avRes>>

\* one channel of the loop raises (here: in the readback); the catch logs it
AvChannelFails ==
  /\ avPc = "loop" /\ avI < AvNumChannels
  /\ avLive' = avLive \cup AvDisposedPerChannel(avI) \cup AvUndisposedPerChannel(avI)
  /\ avI' = avI + 1
  /\ UNCHANGED <<avPc, avIn, avRes, avTiles>>

\* activations.dispose(); return visualizations
AvFinish ==
  /\ avPc = "loop" /\ avI >= AvNumChannels
  /\ avPc' = "done" /\ avRes' = "tiles"
  /\ avLive' = avLive \ {T("activations", -1)}
  /\ UNCHANGED <<avIn, avI, avTiles>>

AvReturn ==
  /\ avPc = "done"
  /\ avPc' = "idle" /\ avIn' = AvIdleIn /\ avI' = 0 /\ avTiles' = <<>>
  /\ avLive' = {} /\ avRes' = "none"

(***************************************************************************)
(* The React components: ExplainabilityView with its tabs,                 *)
(* PredictionExplainer (mounted on the predictions tab) and                *)
(* FeatureExplorer (mounted on the features tab).  A request is pending    *)
(* from the handler's start until the continuation after its last awaited  *)
(* engine readback; an image is identified by its upload number.           *)
(***************************************************************************)
MaxUploads == 2

MaxPending == 3

Tabs == {"predictions", "gradcam", "filters", "activations",
         "integrated-gradients", "features"}

Req(kind, img) == [kind |-> kind, img |-> img, orphan |-> FALSE]

RemoveAt(s, k) == [j \in 1..(Len(s) - 1) |-> IF j < k THEN s[j] ELSE s[j + 1]]

\* a component that unmounts leaves its pending requests running
Orphaned(reqs, kind) ==
  [j \in 1..Len(reqs) |-> IF reqs[j].kind = kind
                          THEN [reqs[j] EXCEPT !.orphan = TRUE] ELSE reqs[j]]

\* canvasRef.current as it was before the upload was rendered
CanvasRefBeforeRender(before, after) == before # 0

\* const canvas = canvasRef.current in img.onload, read after
\* setSelectedImage(img): the preview canvas is rendered while an image is
\* selected, and React 17 under ReactDOM.render renders synchronously inside a
\* state setter that is called from a DOM callback
CanvasRefAtUpload(before, after) == after # 0

\* tf.engine().startScope()
StartScope(depth) == depth + 1

\* a finally block that leaves the scope open
ScopeLeftOpen(depth) == depth

\* tf.engine().endScope()
EndScope(depth) == depth - 1

\* cleanupTensors: above 100 tensors endScope(); startScope().  Without an
\* open scope endScope throws before it pops, and the catch swallows that
CleanupTensors(depth, high) ==
  IF high /\ depth > 0 THEN StartScope(EndScope(depth)) ELSE depth

\* finally { endScope(); setIsProcessing(false); cleanupTensors() }
FinallyScope(depth, high) == CleanupTensors(EndScope(depth), high)

UiInit ==
  /\ uiTab = "predictions" /\ uiModel = "none" /\ uiLayer = FALSE
  /\ uiImage = 0 /\ uiIsProcessing = FALSE /\ uiError = "none" /\ uiHeatmap = 0
  /\ uiAttr = 0 /\ uiFilterVis = FALSE /\ uiActVis = 0 /\ uiScope = 0
  /\ uiReqs = <<>>
  /\ pePred = 0 /\ peLoading = FALSE /\ peError = "none"
  /\ feGenerating = FALSE /\ feGrid = FALSE /\ feError = "none"

\* PredictionExplainer's effect on [model, image]: reset, then
\* generatePredictions up to the awaited readback of predict
PredictionEffect(model, img, reqs, loading) ==
  /\ pePred' = 0 /\ peError' = "none"
  /\ IF model = "tf" /\ img # 0
     THEN peLoading' = TRUE /\ uiReqs' = Append(reqs, Req("predictions", img))
     ELSE peLoading' = loading /\ uiReqs' = reqs

\* the model prop arrives: with or without an attached TensorFlow.js model,
\* with or without a conv/dense layer to select (the effect on [model])
ModelArrives ==
  /\ uiModel = "none"
  /\ \E m \in {"layersOnly", "tf"} : \E l \in BOOLEAN :
       /\ uiModel' = m /\ uiLayer' = l
       /\ IF uiTab = "predictions"
          THEN PredictionEffect(m, uiImage, uiReqs, peLoading)
          ELSE UNCHANGED <<uiReqs, peVars>>
  /\ UNCHANGED <<uiTab, uiImage, uiIsProcessing, uiError, uiHeatmap, uiAttr,
                 uiFilterVis, uiActVis, uiScope, feVars>>

\* setActiveTab(tab): the tab's component mounts, the old one unmounts
SwitchTab ==
  /\ \E tab \in Tabs \ {uiTab} :
       /\ uiTab' = tab
       /\ LET left == IF uiTab = "predictions" THEN Orphaned(uiReqs, "predictions")
                      ELSE IF uiTab = "features" THEN Orphaned(uiReqs, "features")
                      ELSE uiReqs
          IN  /\ IF tab = "predictions"
                 THEN /\ Len(uiReqs) < MaxPending
                      /\ PredictionEffect(uiModel, uiImage, left, FALSE)
                 ELSE /\ uiReqs' = left
                      \* the unmounted PredictionExplainer's state is gone
                      /\ pePred' = 0 /\ peLoading' = FALSE /\ peError' = "none"
              /\ feGenerating' = FALSE /\ feGrid' = FALSE /\ feError' = "none"
  /\ UNCHANGED <<uiModel, uiLayer, uiImage, uiIsProcessing, uiError, uiHeatmap,
                 uiAttr, uiFilterVis, uiActVis, uiScope>>

\* handleImageUpload, the image loads: img.onload
UploadImage ==
  /\ uiImage < MaxUploads /\ Len(uiReqs) < MaxPending
  /\ uiImage' = uiImage + 1
  /\ IF CanvasRefAtUpload(uiImage, uiImage + 1)
     THEN /\ uiHeatmap' = 0 /\ uiFilterVis' = FALSE /\ uiActVis' = 0
          /\ uiAttr' = 0 /\ uiError' = "none"
     ELSE UNCHANGED <<uiHeatmap, uiFilterVis, uiActVis, uiAttr, uiError>>
  /\ IF uiTab = "predictions"
     THEN PredictionEffect(uiModel, uiImage + 1, uiReqs, peLoading)
     ELSE UNCHANGED <<uiReqs, peVars>>
  /\ UNCHANGED <<uiTab, uiModel, uiLayer, uiIsProcessing, uiScope, feVars>>

\* handleImageUpload, the file or the image fails to load
UploadFails ==
  /\ uiError' = "imageLoad"
  /\ UNCHANGED <<uiTab, uiModel, uiLayer, uiImage, uiIsProcessing, uiHeatmap, uiAttr,
                 uiFilterVis, uiActVis, uiScope, uiReqs, peVars, feVars>>

\* a handler of ExplainabilityView up to its first awaited readback.
\* needsImage/needsLayer: the inputs its button and its guard require;
\* suspends: whether a successful run waits for the engine before it ends
ViewHandlerStart(tab, kind, needsImage, needsLayer, suspends) ==
  /\ uiTab = tab /\ ~uiIsProcessing
  /\ needsImage => uiImage # 0
  /\ needsLayer => uiLayer
  /\ Len(uiReqs) < MaxPending
  /\ IF uiModel # "tf"
     THEN /\ uiError' = "missingInputs"
          /\ UNCHANGED <<uiIsProcessing, uiScope, uiReqs, uiFilterVis, uiActVis, uiAttr>>
     ELSE /\ uiFilterVis' = (IF kind = "filters" THEN FALSE ELSE uiFilterVis)
          /\ uiActVis' = (IF kind = "activations" THEN 0 ELSE uiActVis)
          /\ uiAttr' = (IF kind = "attributions" THEN 0 ELSE uiAttr)
          /\ \E ok \in BOOLEAN :
               IF ok /\ suspends
               THEN /\ uiIsProcessing' = TRUE /\ uiError' = "none"
                    /\ uiScope' = StartScope(uiScope)
                    /\ uiReqs' = Append(uiReqs, Req(kind, uiImage))
               ELSE \* the whole handler runs without waiting: result or
                    \* failure, then the finally block
                    /\ uiIsProcessing' = FALSE
                    /\ uiError' = (IF ok THEN "none" ELSE "failed")
                    /\ \E high \in BOOLEAN :
                         uiScope' = FinallyScope(StartScope(uiScope), high)
                    /\ UNCHANGED uiReqs
  /\ UNCHANGED <<uiTab, uiModel, uiLayer, uiImage, uiHeatmap, peVars, feVars>>

\* heatmapCanvasRef.current exists only while a heatmap is displayed
ClickGradCAM == ViewHandlerStart("gradcam", "gradcam", TRUE, TRUE, uiHeatmap # 0)

ClickFilters == ViewHandlerStart("filters", "filters", FALSE, TRUE, TRUE)

ClickActivations == ViewHandlerStart("activations", "activations", TRUE, TRUE, TRUE)

\* attributionCanvasRef.current exists only while a map is displayed
ClickAttributions ==
  ViewHandlerStart("integrated-gradients", "attributions", TRUE, FALSE, uiAttr # 0)

\* the continuation of a handler of ExplainabilityView after its readback:
\* the result is stored or the failure reported, then the finally block
ViewHandlerFinish ==
  \E k \in 1..Len(uiReqs) : \E ok, high \in BOOLEAN :
    LET r == uiReqs[k] IN
    /\ r.kind \in {"gradcam", "filters", "activations", "attributions"}
    /\ uiReqs' = RemoveAt(uiReqs, k)
    /\ uiHeatmap' = (IF ok /\ r.kind = "gradcam" THEN r.img ELSE uiHeatmap)
    /\ uiFilterVis' = (IF ok /\ r.kind = "filters" THEN TRUE ELSE uiFilterVis)
    /\ uiActVis' = (IF ok /\ r.kind = "activations" THEN r.img ELSE uiActVis)
    /\ uiAttr' = (IF ok /\ r.kind = "attributions" THEN r.img ELSE uiAttr)
    /\ uiError' = (IF ok THEN uiError ELSE "failed")
    /\ uiScope' = FinallyScope(uiScope, high)
    /\ uiIsProcessing' = FALSE
    /\ UNCHANGED <<uiTab, uiModel, uiLayer, uiImage, peVars, feVars>>

\* FeatureExplorer.handleGenerateVisualizations up to tensorToImageData
ClickGenerateFeatures ==
  /\ uiTab = "features" /\ ~feGenerating /\ uiLayer
  /\ Len(uiReqs) < MaxPending
  /\ IF uiModel # "tf"
     THEN feError' = "missingInputs" /\ UNCHANGED <<feGenerating, feGrid, uiReqs>>
     ELSE /\ feGrid' = FALSE
          /\ \E ok \in BOOLEAN :
               IF ok
               THEN /\ feGenerating' = TRUE /\ feError' = "none"
                    /\ uiReqs' = Append(uiReqs, Req("features", uiImage))
               ELSE /\ feGenerating' = FALSE /\ feError' = "failed"
                    /\ UNCHANGED uiReqs
  /\ UNCHANGED <<evVars, peVars>>

\* the continuation after tensorToImageData; a state update of an unmounted
\* component is dropped
FeaturesFinish ==
  \E k \in 1..Len(uiReqs) :
    LET r == uiReqs[k] IN
    /\ r.kind = "features"
    /\ uiReqs' = RemoveAt(uiReqs, k)
    /\ IF r.orphan THEN UNCHANGED feVars
       ELSE feGrid' = TRUE /\ feGenerating' = FALSE /\ UNCHANGED feError
    /\ UNCHANGED <<evVars, peVars>>

\* the continuation of generatePredictions after predictions.data()
PredictionsFinish ==
  \E k \in 1..Len(uiReqs) :
    LET r == uiReqs[k] IN
    /\ r.kind = "predictions"
    /\ uiReqs' = RemoveAt(uiReqs, k)
    /\ IF r.orphan THEN UNCHANGED peVars
       ELSE \E ok \in BOOLEAN :
              /\ pePred' = (IF ok THEN r.img ELSE pePred)
              /\ peError' = (IF ok THEN peError ELSE "failed")
              /\ peLoading' = FALSE
    /\ UNCHANGED <<evVars, feVars>>

(***************************************************************************)
(* Kernel inspector (FilterVisualizer.getFilterWeights, visualizeFilters). *)
(* A layer has a kind, a class name (lower-cased, as its characters) and   *)
(* possibly weights; the first weight of a layer that passes the check has *)
(* outChannels entries on its last axis.                                   *)
(***************************************************************************)
MaxKernelFilters == 3

\* options.maxFilters || 16
DefaultMaxFilters == 16

\* layer.getClassName().toLowerCase() of the layers a model may hold: two
\* convolutional layers, a dense layer, a layer without weights and a
\* registered custom layer that is not convolutional
LayerClasses ==
  { [kind |-> "conv",    className |-> <<"c", "o", "n", "v", "2", "d">>],
    [kind |-> "conv",    className |-> <<"d", "w", "c", "o", "n", "v">>],
    [kind |-> "dense",   className |-> <<"d", "e", "n", "s", "e">>],
    [kind |-> "flatten", className |-> <<"f", "l", "a", "t">>],
    [kind |-> "custom",  className |-> <<"c", "o", "n", "v", "e", "x">>] }

\* String.prototype.includes
Includes(str, sub) ==
  \E i \in 0..(Len(str) - Len(sub)) : \A j \in 1..Len(sub) : str[i + j] = sub[j]

\* className.includes('conv')
PassesConvCheck(layer) == Includes(layer.className, <<"c", "o", "n", "v">>)

\* getFilterWeights(layerName): "kernels" or the reason for null
GetFilterWeights(in) ==
  IF ~in.hasModel THEN "noModel"
  ELSE IF ~in.layerFound THEN "noLayer"
  ELSE IF ~PassesConvCheck(in.layer) THEN "notConv"
  ELSE IF ~in.hasWeights THEN "noWeights"
  ELSE "kernels"

\* options.maxFilters || 16: an absent or a zero option gives the default
EffectiveMaxFilters(in) ==
  IF in.maxGiven /\ in.maxFilters # 0 THEN in.maxFilters ELSE DefaultMaxFilters

VfInputs ==
  { [hasModel |-> m, layerFound |-> l, layer |-> layer, hasWeights |-> w,
     outChannels |-> C, maxGiven |-> g, maxFilters |-> r] :
      m \in BOOLEAN, l \in BOOLEAN, layer \in LayerClasses, w \in BOOLEAN,
      C \in 1..MaxKernelFilters, g \in BOOLEAN, r \in RequestedMax }

VfIdleIn ==
  [hasModel |-> FALSE, layerFound |-> FALSE,
   layer |-> [kind |-> "flatten", className |-> <<"f", "l", "a", "t">>],
   hasWeights |-> FALSE, outChannels |-> 1, maxGiven |-> FALSE, maxFilters |-> 0]

\* the inputs a call does not read are left at their idle values
VfRelevant(in) ==
  /\ ~in.maxGiven => in.maxFilters = 0
  /\ in.layer.kind = "flatten" => ~in.hasWeights
  /\ in.layer.kind = "dense" => in.hasWeights
  /\ ~in.hasModel => ~in.layerFound
  /\ ~in.layerFound => (in.layer = VfIdleIn.layer /\ ~in.hasWeights)
  /\ GetFilterWeights(in) # "kernels"
       => (in.outChannels = 1 /\ ~in.maxGiven)

VfInit ==
  /\ vfPc = "idle" /\ vfIn = VfIdleIn /\ vfI = 0 /\ vfTiles = <<>>
  /\ vfFailed = {} /\ vfRes = "none"

\* getFilterWeights(layerName), then the options
VfCall ==
  /\ vfPc = "idle"
  /\ \E in \in VfInputs :
       /\ VfRelevant(in)
       /\ vfIn' = in
       /\ IF GetFilterWeights(in) = "kernels"
          THEN vfPc' = "loop" /\ vfRes' = "none"
          ELSE vfPc' = "done" /\ vfRes' = "null"
  /\ vfI' = 0 /\ vfTiles' = <<>> /\ vfFailed' = {}

\* numFilters = Math.min(shape[3], maxFilters)
VfNumFilters == Min(vfIn.outChannels, EffectiveMaxFilters(vfIn))

\* one filter of the loop, processed to its ImageData
VfFilter ==
  /\ vfPc = "loop" /\ vfI < VfNumFilters
  /\ vfTiles' = Append(vfTiles, vfI)
  /\ vfI' = vfI + 1
  /\ UNCHANGED <<vfPc, vfIn, vfFailed, vfRes>>

\* one filter of the loop raises and nothing catches it: the call rejects
VfFilterFailsAborts ==
  /\ vfPc = "loop" /\ vfI < VfNumFilters
  /\ vfFailed' = vfFailed \cup {vfI}
  /\ vfPc' = "done" /\ vfRes' = "threw"
  /\ UNCHANGED <<vfIn, vfI, vfTiles>>

\* one filter of the loop raises; the catch logs it
VfFilterFails ==
  /\ vfPc = "loop" /\ vfI < VfNumFilters
  /\ vfFailed' = vfFailed \cup {vfI}
  /\ vfI' = vfI + 1
  /\ UNCHANGED <<vfPc, vfIn, vfTiles, vfRes>>

\* return visualizations
VfFinish ==
  /\ vfPc = "loop" /\ vfI >= VfNumFilters
  /\ vfPc' = "done" /\ vfRes' = "tiles"
  /\ UNCHANGED <<vfIn, vfI, vfTiles, vfFailed>>

VfReturn ==
  /\ vfPc = "done"
  /\ vfPc' = "idle" /\ vfIn' = VfIdleIn /\ vfI' = 0 /\ vfTiles' = <<>>
  /\ vfFailed' = {} /\ vfRes' = "none"

(***************************************************************************)
(* Min-max normalisation for display: the filter tiles of visualizeFilters,*)
(* the activation tiles of visualizeActivations, the synthesised image of  *)
(* visualizeFilter and the attribution map of applyAttributionMap.  A      *)
(* tensor is its elements at NormPositions; its elements are finite.       *)
(***************************************************************************)
NormPositions == 1..3

NormValues == {-2, 0, 1}

\* the attribution map is a sum of magnitudes
MagnitudeValues == {0, 1, 3}

KernelInChannels == {1, 2}

\* the 1e-5 added to max - min
NormEps == Fin(1, 100000)

\* the same quotient without the offset and the epsilon
MinMaxNormalizeNoOffset(t) ==
  [p \in DOMAIN t |-> FDiv(t[p], FSub(FMaxSeq(t), FMinSeq(t)))]

\* t.sub(minVal).div(maxVal.sub(minVal).add(1e-5))
MinMaxNormalize(t) ==
  LET minVal == FMinSeq(t)
      maxVal == FMaxSeq(t)
  IN  [p \in DOMAIN t |-> FDiv(FSub(t[p], minVal), FAdd(FSub(maxVal, minVal), NormEps))]

\* shape[2] > 1 ? filterWeights.mean(2) : filterWeights.squeeze(2)
FilterMean(w) == [p \in DOMAIN w |-> FMeanSeq(w[p])]

NmInit == nmKind = "none" /\ nmIn = <<>> /\ nmOut = <<>>

\* visualizeFilters: normalizedFilter of one filter of the kernel
NormalizeFilter ==
  \E c \in KernelInChannels :
  \E w \in [NormPositions -> [1..c -> {F(v) : v \in NormValues}]] :
    /\ nmKind' = "filterTile"
    /\ nmIn' = FilterMean(w)
    /\ nmOut' = MinMaxNormalize(FilterMean(w))

\* visualizeActivations: normalizedActivations of one channel
NormalizeActivation ==
  \E t \in [NormPositions -> {F(v) : v \in NormValues}] :
    nmKind' = "activationTile" /\ nmIn' = t /\ nmOut' = MinMaxNormalize(t)

\* visualizeFilter: normalizedImage of bestImage
NormalizeSynthesised ==
  \E t \in [NormPositions -> {F(v) : v \in NormValues}] :
    nmKind' = "synthesisedImage" /\ nmIn' = t /\ nmOut' = MinMaxNormalize(t)

\* applyAttributionMap: normalizedMap of the resized attribution map
NormalizeAttribution ==
  \E t \in [NormPositions -> {F(v) : v \in MagnitudeValues}] :
    nmKind' = "attributionMap" /\ nmIn' = t /\ nmOut' = MinMaxNormalize(t)

(***************************************************************************)
(* Grid of synthesised filters (FeatureVisualizer.visualizeLayerFilters).  *)
(* A tile is the visualisation of one filter or a blank (all-zero) tile.   *)
(* layer.outputShape of a layer of a loaded model is its shape, or the     *)
(* getter throws (a layer that was never called).                          *)
(***************************************************************************)
MaxLayerChannels == 10

MaxNumFilters == 10

MaxGridWidth == 4

\* tf.zeros([1, tileHeight, tileWidth, 3])
BlankTile == [kind |-> "blank", filter |-> -1]

\* the tensor visualizeFilter returned for filter i
FilterTile(i) == [kind |-> "vis", filter |-> i]

\* the requested count used as it is
FilterCountUncapped(in) == in.numFilters

\* filterCount = Math.min(numFilters, lastDim)
FilterCount(in) == Min(in.numFilters, in.lastDim)

\* the number of full rows only
GridHeightFloor(n, w) == n \div w

\* gridHeight = Math.ceil(filterCount / gridWidth)
GridHeight(n, w) == (n + w - 1) \div w

\* visualizations.slice(startIdx, endIdx) of row i, padded with blank tiles
GridRow(vis, w, i) ==
  LET startIdx == i * w
      endIdx   == Min((i + 1) * w, Len(vis))
      have     == Max(endIdx - startIdx, 0)
  IN  [c \in 1..Max(w, have) |-> IF c <= have THEN vis[startIdx + c] ELSE BlankTile]

\* the rows concatenated vertically
BuildGrid(vis, n, w) == [r \in 1..GridHeight(n, w) |-> GridRow(vis, w, r - 1)]

LfInputs ==
  { [hasModel |-> m, layer |-> l, lastDim |-> d, numFilters |-> n, gridWidth |-> w] :
      m \in BOOLEAN, l \in {"found", "missing", "shapeThrows"},
      d \in 1..MaxLayerChannels, n \in 0..MaxNumFilters, w \in 1..MaxGridWidth }

LfIdleIn == [hasModel |-> FALSE, layer |-> "missing", lastDim |-> 1, numFilters |-> 0,
             gridWidth |-> 1]

LfNoResult == [kind |-> "none", grid |-> <<>>]

LfNullResult == [kind |-> "null", grid |-> <<>>]

LfInit ==
  /\ lfPc = "idle" /\ lfIn = LfIdleIn /\ lfI = 0 /\ lfCalls = <<>> /\ lfVis = <<>>
  /\ lfRes = LfNoResult

\* visualizeLayerFilters up to the loop over the filters
LfCall ==
  /\ lfPc = "idle"
  /\ \E in \in LfInputs :
       \* the counts are read only once the layer and its shape are there
       /\ (in.hasModel /\ in.layer = "found") \/ in = [LfIdleIn EXCEPT !.hasModel = in.hasModel, !.layer = in.layer]
       /\ ~in.hasModel => in.layer = "missing"
       /\ lfIn' = in
       /\ IF in.hasModel /\ in.layer = "found"
          THEN lfPc' = "loop" /\ lfRes' = LfNoResult
          ELSE lfPc' = "done" /\ lfRes' = LfNullResult
  /\ lfI' = 0 /\ lfCalls' = <<>> /\ lfVis' = <<>>

\* await this.visualizeFilter(layerName, i, ...) returns a tensor
LfFilterVisualized ==
  /\ lfPc = "loop" /\ lfI < FilterCount(lfIn)
  /\ lfCalls' = Append(lfCalls, lfI)
  /\ lfVis' = Append(lfVis, FilterTile(lfI))
  /\ lfI' = lfI + 1
  /\ UNCHANGED <<lfPc, lfIn, lfRes>>

\* await this.visualizeFilter(layerName, i, ...) returns null: a blank tile
LfFilterNull ==
  /\ lfPc = "loop" /\ lfI < FilterCount(lfIn)
  /\ lfCalls' = Append(lfCalls, lfI)
  /\ lfVis' = Append(lfVis, BlankTile)
  /\ lfI' = lfI + 1
  /\ UNCHANGED <<lfPc, lfIn, lfRes>>

\* after the loop: null for no visualisation, else the grid
LfAssemble ==
  /\ lfPc = "loop" /\ lfI >= FilterCount(lfIn)
  /\ lfPc' = "done"
  /\ lfRes' = IF Len(lfVis) = 0 THEN LfNullResult
              ELSE [kind |-> "grid",
                    grid |-> BuildGrid(lfVis, FilterCount(lfIn), lfIn.gridWidth)]
  /\ UNCHANGED <<lfIn, lfI, lfCalls, lfVis>>

LfReturn ==
  /\ lfPc = "done"
  /\ lfPc' = "idle" /\ lfIn' = LfIdleIn /\ lfI' = 0 /\ lfCalls' = <<>>
  /\ lfVis' = <<>> /\ lfRes' = LfNoResult

(***************************************************************************)
(* PredictionHelper: the class dictionary is loaded asynchronously by the  *)
(* constructor; predict and getTopKClasses read whatever is there.         *)
(* Probabilities are in tenths.  A dictionary is the set of indexes it has *)
(* an entry for, with the file it came from.                               *)
(***************************************************************************)
MaxClasses == 3

MaxK == 4

PredictTopK == 5

ProbLevels == {1, 2, 7}

ClassIndexes == 0..(MaxClasses - 1)

\* this.classDictionary = null
NullDict == [src |-> "none", keys |-> {}]

\* the dictionaries a label file can hold
JsonDicts == { [src |-> "json", keys |-> ks] : ks \in SUBSET ClassIndexes }

\* the dictionary the catch block builds: '0' .. '6'
MinimalDict == [src |-> "minimal", keys |-> 0..6]

Placeholder(i) == [kind |-> "placeholder", src |-> "none", index |-> i]

\* classDictionary ? (classDictionary[index] || `Class ${index}`) : `Class ${index}`
ClassName(dict, i) ==
  IF dict # NullDict /\ i \in dict.keys
  THEN [kind |-> "entry", src |-> dict.src, index |-> i]
  ELSE Placeholder(i)

\* the comparator reversed
SortCompareAscending(a, b) == a.probability - b.probability

\* (a, b) => b.probability - a.probability
SortCompare(a, b) == b.probability - a.probability

\* one step of a stable sort: e goes after every element that does not
\* compare greater than it
RECURSIVE InsertSorted(_, _)
InsertSorted(sorted, e) ==
  IF sorted = <<>> THEN <<e>>
  ELSE LET last == sorted[Len(sorted)]
       IN  IF SortCompare(last, e) <= 0 THEN Append(sorted, e)
           ELSE Append(InsertSorted(SubSeq(sorted, 1, Len(sorted) - 1), e), last)

\* Array.prototype.sort with SortCompare (stable)
RECURSIVE SortEntries(_)
SortEntries(entries) ==
  IF entries = <<>> THEN <<>>
  ELSE InsertSorted(SortEntries(SubSeq(entries, 1, Len(entries) - 1)),
                    entries[Len(entries)])

\* .slice(0, k) for k >= 0
SliceTo(seq, k) == SubSeq(seq, 1, Min(k, Len(seq)))

GetTopKClasses(dict, probabilities, k) ==
  LET entries == [j \in 1..Len(probabilities) |->
                    [probability |-> probabilities[j], index |-> j - 1]]
      indices == SliceTo(SortEntries(entries), k)
  IN  [j \in 1..Len(indices) |->
         [className |-> ClassName(dict, indices[j].index),
          probability |-> indices[j].probability,
          index |-> indices[j].index]]

ProbabilityArrays == UNION { [1..n -> ProbLevels] : n \in 0..MaxClasses }

Undefined == [className |-> Placeholder(-1), probability |-> -1, index |-> -1]

PhNoInput == [call |-> "none", probabilities |-> <<>>, k |-> 0]

PhNoResult == [kind |-> "none", topPredictions |-> <<>>, topPrediction |-> Undefined]

PhInit ==
  /\ phPc = "idle" /\ phLoad = "pending" /\ phDict = NullDict
  /\ phIn = PhNoInput /\ phRes = PhNoResult

\* loadImageNetClasses: one of the two responses is OK and parses
PhLoadOk ==
  /\ phLoad = "pending"
  /\ \E d \in JsonDicts : phDict' = d
  /\ phLoad' = "loaded"
  /\ UNCHANGED <<phPc, phIn, phRes>>

\* loadImageNetClasses: both responses are non-OK
PhLoadNotOk ==
  /\ phLoad = "pending"
  /\ phLoad' = "notOk"
  /\ UNCHANGED <<phPc, phDict, phIn, phRes>>

\* loadImageNetClasses: fetch or json() threw
PhLoadThrows ==
  /\ phLoad = "pending"
  /\ phLoad' = "threw" /\ phDict' = MinimalDict
  /\ UNCHANGED <<phPc, phIn, phRes>>

\* predict(image) with a model that answers
PhPredict ==
  /\ phPc = "idle"
  /\ \E p \in ProbabilityArrays :
       LET topK == GetTopKClasses(phDict, p, PredictTopK)
       IN  /\ phIn' = [call |-> "predict", probabilities |-> p, k |-> PredictTopK]
           /\ phRes' = [kind |-> "ok", topPredictions |-> topK,
                        topPrediction |-> IF topK = <<>> THEN Undefined ELSE topK[1]]
  /\ phPc' = "done"
  /\ UNCHANGED <<phLoad, phDict>>

\* predict(image) without a model, or the model throws
PhPredictThrows ==
  /\ phPc = "idle"
  /\ phIn' = [call |-> "predict", probabilities |-> <<>>, k |-> PredictTopK]
  /\ phRes' = [PhNoResult EXCEPT !.kind = "error"]
  /\ phPc' = "done"
  /\ UNCHANGED <<phLoad, phDict>>

\* getTopKClasses(probabilities, k)
PhTopK ==
  /\ phPc = "idle"
  /\ \E p \in ProbabilityArrays, k \in 0..MaxK :
       /\ phIn' = [call |-> "topK", probabilities |-> p, k |-> k]
       /\ phRes' = [kind |-> "ok", topPredictions |-> GetTopKClasses(phDict, p, k),
                    topPrediction |-> Undefined]
  /\ phPc' = "done"
  /\ UNCHANGED <<phLoad, phDict>>

PhReturn ==
  /\ phPc = "done"
  /\ phPc' = "idle" /\ phIn' = PhNoInput /\ phRes' = PhNoResult
  /\ UNCHANGED <<phLoad, phDict>>

(***************************************************************************)
(* CNNModel.loadModel.  A model description is the place it came from and  *)
(* the number of entries of its layers array; every layer a description    *)
(* builder writes has a type and a name.                                   *)
(***************************************************************************)
MaxFileLayers == 2

EmbeddedLayerCount == 10

MobileNetVisLayerCount == 46

ModelTypes ==
  {"embedded", "mobilenetv2-vis", "custom", "local", "mobilenetv2", "mobilenetv1", "unlisted"}

\* this.model = null
NoModel == [src |-> "none", layers |-> 0]

CreateEmbeddedModel == [src |-> "embedded", layers |-> EmbeddedLayerCount]

CreateMobileNetV2Model == [src |-> "mobilenetv2-vis", layers |-> MobileNetVisLayerCount]

\* a layers model is described layer by layer, a model without layers gets
\* one placeholder layer
CreateModelDescription(tf) ==
  [src |-> "described", layers |-> IF tf.kind = "layers" THEN tf.layers ELSE 1]

\* model.model.layers is a non-empty array whose first layer has a type or name
ValidateModelStructure(model) == model.layers > 0

NoTfModel == [kind |-> "none", layers |-> 0]

\* what the local file holds, or how fetching it fails
LocalOutcomes ==
  { [how |-> h, layers |-> 0] : h \in {"fetchThrows", "notOk", "jsonThrows", "noLayersArray"} }
    \cup { [how |-> "layersArray", layers |-> n] : n \in 0..MaxFileLayers }

\* what tf.loadLayersModel and tf.loadGraphModel do with the URL
RemoteOutcomes ==
  { [how |-> "layers", layers |-> n] : n \in 0..MaxFileLayers }
    \cup { [how |-> h, layers |-> 0] : h \in {"graph", "bothFail"} }

CmNoOutcome == [how |-> "none", layers |-> 0]

CmInputs ==
  { [modelType |-> t, outcome |-> o] :
      t \in ModelTypes, o \in LocalOutcomes \cup RemoteOutcomes \cup {CmNoOutcome} }

CmIsLocal(t) == t \in {"custom", "local"}

CmIsBuiltIn(t) == t \in {"embedded", "mobilenetv2-vis"}

CmIdleIn == [modelType |-> "embedded", outcome |-> CmNoOutcome]

CmNoResult == [kind |-> "none", model |-> NoModel]

CmInit ==
  /\ cmPc = "idle" /\ cmIn = CmIdleIn /\ cmModel = NoModel /\ cmType = "custom"
  /\ cmTf = NoTfModel /\ cmRes = CmNoResult

\* loadModel(modelType) up to its first await
CmCall ==
  /\ cmPc = "idle"
  /\ \E in \in CmInputs :
       /\ CmIsBuiltIn(in.modelType) => in.outcome = CmNoOutcome
       /\ CmIsLocal(in.modelType) => in.outcome \in LocalOutcomes
       /\ (~CmIsBuiltIn(in.modelType) /\ ~CmIsLocal(in.modelType))
            => in.outcome \in RemoteOutcomes
       /\ cmIn' = in
       /\ cmPc' = IF CmIsBuiltIn(in.modelType) THEN "builtin"
                  ELSE IF CmIsLocal(in.modelType) THEN "local" ELSE "remote"
       /\ cmType' = IF CmIsBuiltIn(in.modelType) \/ CmIsLocal(in.modelType)
                    THEN cmType ELSE in.modelType
  /\ UNCHANGED <<cmModel, cmTf, cmRes>>

\* modelType 'embedded' or 'mobilenetv2-vis': the predefined description
CmBuiltIn ==
  /\ cmPc = "builtin"
  /\ cmModel' = IF cmIn.modelType = "embedded" THEN CreateEmbeddedModel
                ELSE CreateMobileNetV2Model
  /\ cmType' = cmIn.modelType
  /\ cmRes' = [kind |-> "resolved", model |-> cmModel']
  /\ cmPc' = "done"
  /\ UNCHANGED <<cmIn, cmTf>>

\* modelType 'custom' or 'local': the file has a model.layers array
CmLocalLoaded ==
  /\ cmPc = "local" /\ cmIn.outcome.how = "layersArray"
  /\ cmModel' = [src |-> "file", layers |-> cmIn.outcome.layers]
  /\ cmType' = "custom"
  /\ cmRes' = [kind |-> "resolved", model |-> cmModel']
  /\ cmPc' = "done"
  /\ UNCHANGED <<cmIn, cmTf>>

\* modelType 'custom' or 'local': fetch fails or the structure is invalid
CmLocalFallback ==
  /\ cmPc = "local" /\ cmIn.outcome.how # "layersArray"
  /\ cmModel' = CreateEmbeddedModel
  /\ cmType' = "embedded"
  /\ cmRes' = [kind |-> "resolved", model |-> cmModel']
  /\ cmPc' = "done"
  /\ UNCHANGED <<cmIn, cmTf>>

\* tf.loadLayersModel, or after its failure tf.loadGraphModel, gives a model:
\* describe it, validate the description
CmRemoteLoaded ==
  /\ cmPc = "remote" /\ cmIn.outcome.how \in {"layers", "graph"}
  /\ cmTf' = [kind |-> cmIn.outcome.how, layers |-> cmIn.outcome.layers]
  /\ LET description == CreateModelDescription(cmTf')
     IN  IF ValidateModelStructure(description)
         THEN cmModel' = description /\ cmType' = cmType
         ELSE cmModel' = CreateEmbeddedModel /\ cmType' = "embedded"
  /\ cmRes' = [kind |-> "resolved", model |-> cmModel']
  /\ cmPc' = "done"
  /\ UNCHANGED cmIn

\* both loaders fail: the embedded model
CmRemoteFallback ==
  /\ cmPc = "remote" /\ cmIn.outcome.how = "bothFail"
  /\ cmModel' = CreateEmbeddedModel
  /\ cmType' = "embedded"
  /\ cmRes' = [kind |-> "resolved", model |-> cmModel']
  /\ cmPc' = "done"
  /\ UNCHANGED <<cmIn, cmTf>>

CmReturn ==
  /\ cmPc = "done"
  /\ cmPc' = "idle" /\ cmIn' = CmIdleIn /\ cmRes' = CmNoResult
  /\ UNCHANGED <<cmModel, cmType, cmTf>>

(***************************************************************************)
(* The image argument.  Every operation that takes an image accepts a      *)
(* tensor or an HTML image; for an HTML image it creates a tensor with     *)
(* tf.browser.fromPixels.  owLive is the set of live image tensors,        *)
(* owDisposed the image tensors the components have disposed.  Tensors     *)
(* derived from the image (resized, cast, ...) are other tensors.          *)
(***************************************************************************)
ImageOps ==
  {"generateHeatmap", "generateAttributions", "applyAttributionMap",
   "getLayerActivations", "predict"}

\* the tensors the caller holds
CallerTensors == { [owner |-> "caller", name |-> n] : n \in {"image1", "image2"} }

\* an HTML image element
HtmlImage == [owner |-> "caller", name |-> "element"]

\* tf.browser.fromPixels(image) inside operation op
FromPixels(op) == [owner |-> op, name |-> "pixels"]

\* inputImage instanceof tf.Tensor ? inputImage : tf.browser.fromPixels(inputImage)
ImageTensor(op, inputImage) ==
  IF inputImage \in CallerTensors THEN inputImage ELSE FromPixels(op)

\* operations whose clean-up mentions the image tensor
OpsWithImageCleanup ==
  {"generateAttributions", "applyAttributionMap", "getLayerActivations", "predict"}

\* clean-up that does not look at where the tensor came from
DisposesImageAlways(op, img, inputImage) == op \in OpsWithImageCleanup

\* if (img !== inputImage) img.dispose()
DisposesImage(op, img, inputImage) == op \in OpsWithImageCleanup /\ img # inputImage

OwIdleIn == [op |-> "none", image |-> HtmlImage]

OwInit ==
  /\ owPc = "idle" /\ owIn = OwIdleIn /\ owImg = HtmlImage
  /\ owLive = CallerTensors /\ owDisposed = {}

\* the operation starts and obtains its image tensor
OwCall ==
  /\ owPc = "idle"
  /\ \E op \in ImageOps, image \in CallerTensors \cup {HtmlImage} :
       /\ owIn' = [op |-> op, image |-> image]
       /\ owImg' = ImageTensor(op, image)
       /\ owLive' = owLive \cup {ImageTensor(op, image)}
  /\ owPc' = "running"
  /\ UNCHANGED owDisposed

\* the operation reaches its clean-up and returns its result
OwFinish ==
  /\ owPc = "running"
  /\ IF DisposesImage(owIn.op, owImg, owIn.image)
     THEN owLive' = owLive \ {owImg} /\ owDisposed' = owDisposed \cup {owImg}
     ELSE UNCHANGED <<owLive, owDisposed>>
  /\ owPc' = "done"
  /\ UNCHANGED <<owIn, owImg>>

\* the operation throws (or returns null early) before its clean-up
OwThrowsBeforeCleanup ==
  /\ owPc = "running"
  /\ owPc' = "done"
  /\ UNCHANGED <<owIn, owImg, owLive, owDisposed>>

\* predict: preprocessImage has cleaned up, then the model throws
OwPredictThrows ==
  /\ owPc = "running" /\ owIn.op = "predict"
  /\ IF DisposesImage(owIn.op, owImg, owIn.image)
     THEN owLive' = owLive \ {owImg} /\ owDisposed' = owDisposed \cup {owImg}
     ELSE UNCHANGED <<owLive, owDisposed>>
  /\ owPc' = "done"
  /\ UNCHANGED <<owIn, owImg>>

OwReturn ==
  /\ owPc = "done"
  /\ owPc' = "idle" /\ owIn' = OwIdleIn /\ owImg' = HtmlImage
  /\ UNCHANGED <<owLive, owDisposed>>

(***************************************************************************)
(* Specifications: one per component, the other components at rest.        *)
(***************************************************************************)
vars == <<gcVars, igVars, fvVars, avVars, uiVars, nmVars, vfVars, lfVars, phVars, cmVars, owVars>>

Init == GcInit /\ IgInit /\ FvInit /\ AvInit /\ UiInit /\ NmInit /\ VfInit /\ LfInit /\ PhInit /\ CmInit /\ OwInit

GcRest == UNCHANGED <<igVars, fvVars, avVars, uiVars, nmVars, vfVars, lfVars, phVars, cmVars, owVars>>

GcNext ==
  \/ GcCall /\ GcRest
  \/ ApplyHeatmapToImage /\ GcRest
  \/ GcReturn /\ GcRest

SpecGradCAM == Init /\ [][GcNext]_vars

IgRest == UNCHANGED <<gcVars, fvVars, avVars, uiVars, nmVars, vfVars, lfVars, phVars, cmVars, owVars>>

IgNext ==
  \/ IgCall /\ IgRest
  \/ IgStep /\ IgRest
  \/ IgThrow /\ IgRest
  \/ IgFinish /\ IgRest
  \/ IgReturn /\ IgRest

SpecIG == Init /\ [][IgNext]_vars

FvRest == UNCHANGED <<gcVars, igVars, avVars, uiVars, nmVars, vfVars, lfVars, phVars, cmVars, owVars>>

FvNext ==
  \/ FvCall /\ FvRest
  \/ FvStep /\ FvRest
  \/ FvThrow /\ FvRest
  \/ FvFinish /\ FvRest
  \/ FvReturn /\ FvRest

SpecFeature == Init /\ [][FvNext]_vars

AvRest == UNCHANGED <<gcVars, igVars, fvVars, uiVars, nmVars, vfVars, lfVars, phVars, cmVars, owVars>>

AvNext ==
  \/ AvCall /\ AvRest
  \/ AvChannel /\ AvRest
  \/ AvChannelFails /\ AvRest
  \/ AvFinish /\ AvRest
  \/ AvReturn /\ AvRest

SpecActivations == Init /\ [][AvNext]_vars

UiRest == UNCHANGED <<gcVars, igVars, fvVars, avVars, nmVars, vfVars, lfVars, phVars, cmVars, owVars>>

UiNext ==
  \/ ModelArrives /\ UiRest
  \/ SwitchTab /\ UiRest
  \/ UploadImage /\ UiRest
  \/ UploadFails /\ UiRest
  \/ ClickGradCAM /\ UiRest
  \/ ClickFilters /\ UiRest
  \/ ClickActivations /\ UiRest
  \/ ClickAttributions /\ UiRest
  \/ ViewHandlerFinish /\ UiRest
  \/ ClickGenerateFeatures /\ UiRest
  \/ FeaturesFinish /\ UiRest
  \/ PredictionsFinish /\ UiRest

SpecUI == Init /\ [][UiNext]_vars

NmRest == UNCHANGED <<gcVars, igVars, fvVars, avVars, uiVars, vfVars, lfVars, phVars, cmVars, owVars>>

NmNext ==
  \/ NormalizeFilter /\ NmRest
  \/ NormalizeActivation /\ NmRest
  \/ NormalizeSynthesised /\ NmRest
  \/ NormalizeAttribution /\ NmRest

SpecNormalize == Init /\ [][NmNext]_vars

VfRest == UNCHANGED <<gcVars, igVars, fvVars, avVars, uiVars, nmVars, lfVars, phVars, cmVars, owVars>>

VfNext ==
  \/ VfCall /\ VfRest
  \/ VfFilter /\ VfRest
  \/ VfFilterFails /\ VfRest
  \/ VfFinish /\ VfRest
  \/ VfReturn /\ VfRest

SpecFilters == Init /\ [][VfNext]_vars

LfRest == UNCHANGED <<gcVars, igVars, fvVars, avVars, uiVars, nmVars, vfVars, phVars, cmVars, owVars>>

LfNext ==
  \/ LfCall /\ LfRest
  \/ LfFilterVisualized /\ LfRest
  \/ LfFilterNull /\ LfRest
  \/ LfAssemble /\ LfRest
  \/ LfReturn /\ LfRest

SpecGrid == Init /\ [][LfNext]_vars

PhRest == UNCHANGED <<gcVars, igVars, fvVars, avVars, uiVars, nmVars, vfVars, lfVars, cmVars, owVars>>

PhNext ==
  \/ PhLoadOk /\ PhRest
  \/ PhLoadNotOk /\ PhRest
  \/ PhLoadThrows /\ PhRest
  \/ PhPredict /\ PhRest
  \/ PhPredictThrows /\ PhRest
  \/ PhTopK /\ PhRest
  \/ PhReturn /\ PhRest

SpecPrediction == Init /\ [][PhNext]_vars

CmRest == UNCHANGED <<gcVars, igVars, fvVars, avVars, uiVars, nmVars, vfVars, lfVars, phVars, owVars>>

CmNext ==
  \/ CmCall /\ CmRest
  \/ CmBuiltIn /\ CmRest
  \/ CmLocalLoaded /\ CmRest
  \/ CmLocalFallback /\ CmRest
  \/ CmRemoteLoaded /\ CmRest
  \/ CmRemoteFallback /\ CmRest
  \/ CmReturn /\ CmRest

SpecLoadModel == Init /\ [][CmNext]_vars

OwRest == UNCHANGED <<gcVars, igVars, fvVars, avVars, uiVars, nmVars, vfVars, lfVars, phVars, cmVars>>

OwNext ==
  \/ OwCall /\ OwRest
  \/ OwFinish /\ OwRest
  \/ OwThrowsBeforeCleanup /\ OwRest
  \/ OwPredictThrows /\ OwRest
  \/ OwReturn /\ OwRest

SpecImageArgument == Init /\ [][OwNext]_vars

(***************************************************************************)
(* Claims.                                                                 *)
(***************************************************************************)

\* C1: every value of a heatmap returned by generateHeatmap is finite and
\* lies in [0,1], also when the rectified map is constant (max = min).
C1_HeatmapInUnitInterval ==
  (gcPc = "done" /\ gcOut.result = "heatmap")
    => \A p \in DOMAIN gcOut.heat : InUnit(gcOut.heat[p])

\* C2: the gradient averaged into the channel weights is taken with respect
\* to the target layer's activation, and the activation values come from the
\* forward pass that produced that gradient.
C2_GradientWrtLayerActivation ==
  (gcPc = "done" /\ gcOut.result = "heatmap")
    => (gcOut.gradWrt = "layerActivation" /\ gcOut.actFrom = "gradientPass")

\* the point the path integral prescribes for sample i of steps
PathPoint(input, baseline, steps, i) ==
  TAdd(baseline, TScale(TSub(input, baseline), FDiv(F(i), F(steps))))

\* C3: for steps >= 1 the gradient is evaluated at exactly steps+1 points and
\* point i is baseline + (i/steps) * (input - baseline); the last is the input.
C3_SamplesOnStraightPath ==
  (igPc \in {"loop", "done"} /\ igIn.steps >= 1)
    => /\ \A k \in 1..Len(igPoints) :
            igPoints[k] = PathPoint(igIn.x, ZerosLike(igIn.x), igIn.steps, k - 1)
       /\ (igRes.kind = "map" =>
             /\ Len(igPoints) = igIn.steps + 1
             /\ igPoints[Len(igPoints)] = igIn.x)

\* C4: with steps = 0 the single sample is the input, no interpolated input
\* holds NaN or an infinity, and the result is |(input - baseline) * gradient
\* at the input| summed over channels.
C4_ZeroStepsIsGradientTimesInput ==
  (igPc = "done" /\ igRes.kind = "map" /\ igIn.steps = 0)
    => /\ Len(igPoints) = 1
       /\ \A p \in Positions : \A c \in InChans : IsFinite(igPoints[1][p][c])
       /\ igRes.map = SumAbsChannels(TMul(TSub(igIn.x, ZerosLike(igIn.x)),
                                          ModelGrad(igIn.x)))

\* C5: the image visualizeFilter returns is a copy of a measured iterate whose
\* measured activation is the largest of all measured ones; with at least one
\* iteration an image is returned and its activation, recomputed from the
\* layer, is at least that of the initial random input.
C5_ReturnsBestMeasuredIterate ==
  (fvPc = "done" /\ fvRes.kind \in {"image", "null"} /\ fvIn.hasModel
     /\ fvIn.layerFound /\ fvIn.iterations >= 1)
    => /\ fvRes.kind = "image"
       /\ fvRes.it \in 0..(Len(fvMeasured) - 1)
       /\ fvMeasured[fvRes.it + 1].x = fvRes.x
       /\ \A k \in 1..Len(fvMeasured) :
            fvMeasured[k].act <= fvMeasured[fvRes.it + 1].act
       /\ Activation(fvIn.land, fvRes.x) >= Activation(fvIn.land, fvIn.x0)

\* C5 witness: the retained iterate is neither the first nor the last measured
\* one, and a later iterate measured strictly less (the ascent overshot).
C5_Witness ==
  /\ fvPc = "done" /\ fvRes.kind = "image" /\ fvIn.iterations = 3
  /\ fvRes.it = 1
  /\ fvMeasured[3].act < fvMeasured[2].act
  /\ fvMeasured[1].act < fvMeasured[2].act

\* C6: with iterations = 0 on an existing layer visualizeFilter returns the
\* (normalised) initial random image, not null.
C6_ZeroIterationsReturnsNoise ==
  (fvPc = "done" /\ fvIn.hasModel /\ fvIn.layerFound /\ fvIn.iterations = 0)
    => (fvRes.kind = "image" /\ fvRes.x = fvIn.x0)

\* C8: when a component call fails (it caught an exception and returns
\* null), no tensor the call created is still live.
C8_FailureReleasesTensors ==
  (fvPc = "done" /\ fvRes.kind = "threw") => fvLive = {}

\* C10: between iterations of integratedGradients the only live tensor made
\* by the loop is the current running sum: nothing of a completed iteration
\* and no superseded running sum is still live.
C10_CompletedIterationsLeaveNothing ==
  igPc = "loop"
    => \A t \in igLive :
         /\ t.it >= 0 => t = T("gradientSum", igI - 1)
         /\ t.name = "gradientSum" => t.it = igI - 1

\* C7: at any time at most one attribution/visualisation request on the
\* shared model is pending.
C7_AtMostOneRequestInFlight == Len(uiReqs) <= 1

\* C9: when visualizeActivations returns its tiles, every tensor it created
\* has been disposed.
C9_ActivationsLeaveNoTensor == (avPc = "done" /\ avRes = "tiles") => avLive = {}

\* C11: every value of every normalised output (filter tile, activation
\* tile, synthesised image, attribution map) lies in [0,1], also for a
\* constant tensor; the minimum maps to 0.
C11_NormalisedOutputsInUnitInterval ==
  nmKind # "none"
    => /\ \A p \in DOMAIN nmOut : InUnit(nmOut[p])
       /\ \E p \in DOMAIN nmOut : nmOut[p] = F(0)

\* C11 witness: a constant, non-zero tensor (max = min) was normalised.
C11_Witness ==
  /\ nmKind = "activationTile"
  /\ \A p \in DOMAIN nmIn : nmIn[p] = F(1)
  /\ \A p \in DOMAIN nmOut : nmOut[p] = F(0)

\* C12: the channel-weighted sum is rectified before normalisation: every
\* value of the pre-normalisation heatmap is >= 0, a position whose weighted
\* sum is negative holds exactly 0 and any other holds its weighted sum.
C12_RectifiedBeforeNormalisation ==
  (gcPc = "done" /\ gcOut.result = "heatmap")
    => LET raw == WeightedSums(GradWeights(gcIn.grads), gcIn.acts, gcIn.C)
       IN  \A p \in Positions :
             /\ FLe(F(0), gcOut.rectified[p])
             /\ FLt(raw[p], F(0)) => gcOut.rectified[p] = F(0)
             /\ FLe(F(0), raw[p]) => gcOut.rectified[p] = raw[p]

\* C12 witness: a heatmap was returned for which one position had a negative
\* weighted sum and another a positive one.
C12_Witness ==
  /\ gcPc = "done" /\ gcOut.result = "heatmap"
  /\ LET raw == WeightedSums(GradWeights(gcIn.grads), gcIn.acts, gcIn.C)
     IN  /\ \E p \in Positions : FLt(raw[p], F(0))
         /\ \E p \in Positions : FLt(F(0), raw[p])

\* C13: generateHeatmap reports a missing model as a ModelUnavailable failure
\* and an unresolved layer name as a LayerNotFound failure, two outcomes the
\* caller can tell apart from each other and from any other error.
C13_DistinctFailures ==
  gcPc = "done"
    => /\ ~gcIn.hasModel => gcOut.result = "ModelUnavailable"
       /\ (gcIn.hasModel /\ ~gcIn.layerFound) => gcOut.result = "LayerNotFound"
       /\ gcOut.threw => gcOut.result \notin {"ModelUnavailable", "LayerNotFound"}

\* the value the overlay prescribes for one channel: the blend, clamped to
\* [0,255]
ClampedBlend(orig, h, alpha, ch) ==
  LET v == FAdd(FMul(F(orig), FSub(F(1), alpha)),
                FMul(<<FMul(F(255), h), FMul(F(255), FMul(Fin(1, 2), h)), F(0)>>[ch],
                     alpha))
  IN  IF FLt(v, F(0)) THEN F(0) ELSE IF FLt(F(255), v) THEN F(255) ELSE v

\* C14: every output channel of applyHeatmapToImage is the blend
\* (1-alpha)*original + alpha*colored clamped to [0,255] (as an integer pixel
\* value), for every returned heatmap, original in [0,255] and alpha in [0,1].
C14_OverlayClamped ==
  gcBlend.applied
    => \A p \in DOMAIN gcBlend.out : \A ch \in 1..3 :
         /\ gcBlend.out[p][ch] \in 0..255
         /\ IsFinite(gcOut.heat[p]) =>
              gcBlend.out[p][ch] =
                CastInt32(ClampedBlend(gcBlend.orig, gcOut.heat[p], gcBlend.alpha, ch), 0)

\* |sum(attributions) - (model(input)[class] - model(baseline)[class])|
Discrepancy(input, baseline, steps) ==
  FAbs(FSub(FSumSeq(IntegratedGradientsMap(input, baseline, steps)),
            FSub(ModelScore(input), ModelScore(baseline))))

\* C15: on the toy model the completeness discrepancy of integratedGradients
\* does not increase when steps grows through 1, 10, 100.
C15_DiscrepancyDoesNotGrow ==
  (igPc = "done" /\ igRes.kind = "map")
    => LET b == ZerosLike(igIn.x)
       IN  /\ FLe(Discrepancy(igIn.x, b, 10), Discrepancy(igIn.x, b, 1))
           /\ FLe(Discrepancy(igIn.x, b, 100), Discrepancy(igIn.x, b, 10))

\* C16: without a per-item failure visualizeFilters returns exactly
\* min(outChannels, maxFilters) tiles for every channel count and every
\* requested maximum.
C16_TileCountIsCappedMinimum ==
  (vfPc = "done" /\ vfRes = "tiles" /\ vfFailed = {} /\ vfIn.maxGiven)
    => Len(vfTiles) = Min(vfIn.outChannels, vfIn.maxFilters)

\* C17: visualizeFilters returns tiles only for a layer of convolutional kind
\* that has weights; for any other layer it returns null or an empty result.
C17_TilesOnlyForConvolutionalKind ==
  vfPc = "done"
    => /\ (vfRes = "tiles" /\ vfTiles # <<>>)
            => (vfIn.layer.kind = "conv" /\ vfIn.hasWeights)
       /\ (vfIn.layer.kind # "conv" \/ ~vfIn.hasWeights)
            => (vfRes = "null" \/ vfTiles = <<>>)

AscentFrom(land, reg, lr, x) ==
  RoundToGrid(FAdd(F(x), FMul(F(lr), NormalizedGradients(ObjectiveGrad(land, reg, x)))))

\* C19: iteration 0 evaluates the initial input and every iteration k >= 1
\* evaluates the input exactly as iteration k-1 updated it; the iterations
\* run one after the other and a call that completes has applied exactly
\* `iterations` updates.
C19_IterationsChainInOrder ==
  (fvPc \in {"loop", "done"} /\ fvIn.hasModel /\ fvIn.layerFound)
    => /\ Len(fvMeasured) = fvI
       /\ fvI >= 1 => fvMeasured[1].x = fvIn.x0
       /\ \A k \in 2..Len(fvMeasured) :
            fvMeasured[k].x = AscentFrom(fvIn.land, fvIn.reg, fvIn.lr, fvMeasured[k - 1].x)
       /\ fvI >= 1 =>
            fvX = AscentFrom(fvIn.land, fvIn.reg, fvIn.lr, fvMeasured[fvI].x)
       /\ (fvPc = "done" /\ fvRes.kind # "threw") => fvI = fvIn.iterations

\* C19 witness: three iterations completed and each evaluated a different
\* input from the one before.
C19_Witness ==
  /\ fvPc = "done" /\ fvRes.kind = "image" /\ fvIn.iterations = 3
  /\ Len(fvMeasured) = 3
  /\ fvMeasured[1].x # fvMeasured[2].x /\ fvMeasured[2].x # fvMeasured[3].x

\* C20: when the named layer does not exist or no model is attached,
\* visualizeFilter returns null without raising, having allocated no tensor
\* and run no optimisation iteration.
C20_MissingLayerReturnsNull ==
  (fvPc # "idle" /\ ~(fvIn.hasModel /\ fvIn.layerFound))
    => /\ fvPc = "done" /\ fvRes.kind = "null"
       /\ fvLive = {} /\ fvMeasured = <<>> /\ fvI = 0

\* C20 witness: a call on a model that lacks the named layer has returned.
C20_Witness ==
  /\ fvPc = "done" /\ fvIn.hasModel /\ ~fvIn.layerFound
  /\ fvRes.kind = "null" /\ fvLive = {}

\* C21: the grid of n >= 1 filters with gridWidth w has exactly ceil(n/w) rows
\* of exactly w tiles, and the tile at row r, column c is tile r*w+c of the
\* filter sequence when r*w+c < n and a blank tile otherwise.
C21_GridIsRowMajorAndPadded ==
  (lfPc = "done" /\ lfRes.kind = "grid")
    => LET n == Len(lfVis)
           w == lfIn.gridWidth
       IN  /\ n >= 1
           /\ Len(lfRes.grid) * w >= n /\ (Len(lfRes.grid) - 1) * w < n
           /\ \A r \in 1..Len(lfRes.grid) :
                /\ Len(lfRes.grid[r]) = w
                /\ \A c \in 1..w :
                     lfRes.grid[r][c] =
                       IF (r - 1) * w + (c - 1) < n THEN lfVis[(r - 1) * w + c]
                       ELSE BlankTile

\* C21 witness: 10 filters on a grid 4 wide: 3 rows, the last two tiles of
\* the last row blank, the two before them filters 8 and 9.
C21_Witness ==
  /\ lfPc = "done" /\ lfRes.kind = "grid"
  /\ Len(lfVis) = 10 /\ lfIn.gridWidth = 4 /\ Len(lfRes.grid) = 3
  /\ lfRes.grid[3] = <<FilterTile(8), FilterTile(9), BlankTile, BlankTile>>

\* C22: visualizeFilter is called exactly once for each filter index
\* 0..min(numFilters, channelCount)-1 in ascending order, never with an index
\* >= channelCount; a null result is replaced by a blank tile at that position
\* and the batch still returns a grid.
C22_OneCallPerCappedFilter ==
  (lfPc \in {"loop", "done"} /\ lfIn.hasModel /\ lfIn.layer = "found")
    => /\ lfCalls = [j \in 1..lfI |-> j - 1]
       /\ \A j \in 1..Len(lfCalls) : lfCalls[j] < lfIn.lastDim
       /\ Len(lfVis) = Len(lfCalls)
       /\ \A j \in 1..Len(lfVis) : lfVis[j] \in {FilterTile(j - 1), BlankTile}
       /\ lfPc = "done" =>
            /\ lfI = Min(lfIn.numFilters, lfIn.lastDim)
            /\ lfI >= 1 => lfRes.kind = "grid"

\* C22 witness: more filters were requested than the layer has channels, one
\* call returned null, and a grid came back with a blank tile in its place.
C22_Witness ==
  /\ lfPc = "done" /\ lfRes.kind = "grid"
  /\ lfIn.numFilters > lfIn.lastDim /\ lfIn.lastDim = 3 /\ lfIn.gridWidth = 3
  /\ lfRes.grid[1] = <<FilterTile(0), BlankTile, FilterTile(2)>>

\* C23: getTopKClasses(probabilities, k) over n probabilities returns
\* min(k, n) entries, each the probability of its index, ordered by
\* probability descending with equal probabilities in ascending index order;
\* predict's topPrediction is the first of topPredictions.
C23_TopKSortedStable ==
  (phPc = "done" /\ phRes.kind = "ok")
    => LET top == phRes.topPredictions
           p   == phIn.probabilities
       IN  /\ Len(top) = Min(phIn.k, Len(p))
           /\ \A j \in 1..Len(top) :
                /\ top[j].index \in 0..(Len(p) - 1)
                /\ top[j].probability = p[top[j].index + 1]
                \* nothing left out ranks before an entry returned
                /\ \A i \in 0..(Len(p) - 1) :
                     (\A h \in 1..Len(top) : top[h].index # i)
                       => \/ p[i + 1] < top[j].probability
                          \/ p[i + 1] = top[j].probability /\ i > top[j].index
           /\ \A j, h \in 1..Len(top) :
                j < h => \/ top[j].probability > top[h].probability
                         \/ /\ top[j].probability = top[h].probability
                            /\ top[j].index < top[h].index
           /\ (phIn.call = "predict" /\ top # <<>>) => phRes.topPrediction = top[1]

\* C23 witness: predict on [0.1, 0.7, 0.2] ranks the indexes 1, 2, 0.
C23_Witness ==
  /\ phPc = "done" /\ phRes.kind = "ok" /\ phIn.call = "predict"
  /\ phIn.probabilities = <<1, 7, 2>>
  /\ [j \in 1..3 |-> phRes.topPredictions[j].index] = <<1, 2, 0>>
  /\ phRes.topPrediction.index = 1

\* C24: a prediction made while the class dictionary is unavailable (load
\* pending, both responses non-OK, or the load threw) names every class by its
\* placeholder; with a loaded dictionary the name is the entry of the index or
\* the placeholder when the index has none.
C24_PlaceholderWhenLabelsUnavailable ==
  (phPc = "done" /\ phRes.kind = "ok")
    => \A j \in 1..Len(phRes.topPredictions) :
         LET e == phRes.topPredictions[j]
         IN  IF phLoad \in {"pending", "notOk", "threw"}
             THEN e.className = Placeholder(e.index)
             ELSE e.className = IF e.index \in phDict.keys
                                THEN [kind |-> "entry", src |-> "json", index |-> e.index]
                                ELSE Placeholder(e.index)

\* C25: loadModel(modelType) always resolves to a model description whose
\* layers array is non-empty, and it is the embedded model (modelType
\* 'embedded') whenever loading failed.
C25_LoadModelResolvesNonEmpty ==
  cmPc = "done"
    => /\ cmRes.kind = "resolved"
       /\ cmRes.model.layers > 0
       /\ cmIn.outcome.how \in {"fetchThrows", "notOk", "jsonThrows", "noLayersArray", "bothFail"}
            => cmRes.model = CreateEmbeddedModel /\ cmType = "embedded"

\* C26: whatever operation ran and however it ended, every tensor the caller
\* holds is still live, and the only image tensors a component has disposed
\* are tensors it created itself from an HTML image.
C26_CallerTensorNeverDisposed ==
  /\ CallerTensors \subseteq owLive
  /\ owDisposed \cap CallerTensors = {}
  /\ \A t \in owDisposed : t.name = "pixels" /\ t.owner \in ImageOps

\* C26 witness: an operation given a caller's tensor has returned, and another
\* operation has disposed the tensor it made from an HTML image.
C26_Witness ==
  /\ owPc = "done" /\ owIn.image \in CallerTensors
  /\ owIn.op = "generateAttributions"
  /\ owIn.image \in owLive
  /\ FromPixels("predict") \in owDisposed

\* C27: a generateGradCAM run in which generateHeatmap and
\* applyHeatmapToImage succeed leaves heatmapImage non-null, and a
\* generateAttributions run that succeeds leaves attributionMap non-null.
C27_SuccessfulRunDisplaysResult ==
  [][ /\ (ClickGradCAM /\ uiModel = "tf" /\ uiError' = "none" /\ ~uiIsProcessing')
           => uiHeatmap' # 0
      /\ (ClickAttributions /\ uiModel = "tf" /\ uiError' = "none" /\ ~uiIsProcessing')
           => uiAttr' # 0 ]_vars

\* C28: every successful upload, the first included, leaves heatmapImage,
\* filterVisualizations, activationVisualizations, attributionMap and
\* errorMessage cleared.
C28_UploadClearsResults ==
  [][ UploadImage => /\ uiHeatmap' = 0 /\ ~uiFilterVis' /\ uiActVis' = 0
                     /\ uiAttr' = 0 /\ uiError' = "none" ]_vars

\* C28 witness: the first image has been selected on the filters tab, where a
\* filter visualisation had been started without an image; nothing is shown.
C28_Witness ==
  /\ uiImage = 1 /\ uiTab = "filters" /\ uiModel = "tf" /\ uiLayer
  /\ uiHeatmap = 0 /\ ~uiFilterVis /\ uiActVis = 0 /\ uiAttr = 0 /\ uiError = "none"
  /\ uiReqs = <<Req("filters", 0)>>

\* C29: once no request is pending, the predictions and the activation,
\* heatmap and attribution results on display were computed from the image
\* that is selected now.
C29_NoStaleResultDisplayed ==
  uiReqs = <<>>
    => /\ pePred \in {0, uiImage}
       /\ uiActVis \in {0, uiImage}
       /\ uiHeatmap \in {0, uiImage}
       /\ uiAttr \in {0, uiImage}

\* C30: a handler of ExplainabilityView called without a model sets the error
\* message and leaves isProcessing and the scope depth alone; otherwise the
\* scope it opened is open exactly while its request is pending, and when it
\* has ended (result, null result or exception) isProcessing is false and the
\* scope depth is what it was before.
C30_HandlerRestoresProcessingAndScope ==
  [][ LET pendingAfter ==
            \E k \in 1..Len(uiReqs') :
               uiReqs'[k].kind \in {"gradcam", "filters", "activations", "attributions"}
      IN  /\ (uiModel # "tf" /\ (ClickGradCAM \/ ClickFilters \/ ClickActivations
                                   \/ ClickAttributions))
               => /\ uiError' = "missingInputs"
                  /\ uiIsProcessing' = uiIsProcessing /\ uiScope' = uiScope
          /\ pendingAfter => (uiScope' = 1 /\ uiIsProcessing')
          /\ ~pendingAfter => (uiScope' = 0 /\ ~uiIsProcessing') ]_vars

\* C30 witness: a handler that waited for the engine has ended with an
\* exception; isProcessing is false and no scope is open.
C30_Witness ==
  /\ uiError = "failed" /\ uiTab = "activations" /\ uiActVis = 0 /\ uiImage = 1
  /\ uiReqs = <<>> /\ ~uiIsProcessing /\ uiScope = 0 /\ uiFilterVis

====
